---- MODULE Spec2Model ----
(***************************************************************************)
(* Model of scraper.py: get_response (bounded retry on status 200),        *)
(* extract_company_details (ten selectors, per-field normalisation),       *)
(* scrape_data (batch loop) and write_csv (DictWriter over the records).   *)
(*                                                                         *)
(* Python strings are sequences of one-character strings.  A value that    *)
(* may be None is a record [none, s]; a dict is a sequence of <<key,       *)
(* value>> pairs in insertion order; a parsed document is a function from  *)
(* the ten selectors (named by the field they feed) to the list of         *)
(* fragments the xpath call returns.                                       *)
(***************************************************************************)
EXTENDS Integers, Sequences, FiniteSets, TLC

VARIABLES queries, file0, pc, idx, retry, attempts, response,
          company_details_list, outcomes, origin, stdout,
          file, writeCalls, writeArg, exception,
          xdoc, xstage, xdetails, xagain

vars == <<queries, file0, pc, idx, retry, attempts, response,
          company_details_list, outcomes, origin, stdout,
          file, writeCalls, writeArg, exception,
          xdoc, xstage, xdetails, xagain>>

pipeVars == <<queries, file0, pc, idx, retry, attempts, response,
              company_details_list, outcomes, origin, stdout,
              file, writeCalls, writeArg, exception>>

xVars == <<xdoc, xstage, xdetails, xagain>>

(* ------------------------------ bounds -------------------------------- *)

MaxQueries == 2

MaxFrags == 3

(* ------------------------- strings and values ------------------------- *)

NNBSP == "U+202F"

Whitespace == {" ", "\n", NNBSP}

None == [none |-> TRUE, s |-> <<>>]

Str(t) == [none |-> FALSE, s |-> t]

StockLabel == <<"S","t","o","c","k"," ","p","r","i","c","e",":">>

CeoLabel == <<"C","E","O">>

FoundersLabel == <<"F","o","u","n","d","e","r","s",":">>

FounderLabel == <<"F","o","u","n","d","e","r",":">>

FoundedLabel == <<"F","o","u","n","d","e","d",":">>

HeadquartersLabel == <<"H","e","a","d","q","u","a","r","t","e","r","s",":">>

EmployeesLabel == <<"N","u","m","b","e","r"," ","o","f"," ",
                    "e","m","p","l","o","y","e","e","s",":">>

RECURSIVE Join(_)
Join(raw) == IF raw = <<>> THEN <<>> ELSE Head(raw) \o Join(Tail(raw))

StartsWith(t, old) ==
    /\ Len(old) <= Len(t)
    /\ SubSeq(t, 1, Len(old)) = old

ReplaceFirstOnly(t, old) ==
    IF \E i \in 1..Len(t) : StartsWith(SubSeq(t, i, Len(t)), old)
    THEN LET i == CHOOSE j \in 1..Len(t) :
                    /\ StartsWith(SubSeq(t, j, Len(t)), old)
                    /\ \A k \in 1..(j-1) : ~StartsWith(SubSeq(t, k, Len(t)), old)
         IN SubSeq(t, 1, i-1) \o SubSeq(t, i + Len(old), Len(t))
    ELSE t

RECURSIVE Replace(_, _)
Replace(t, old) ==
    IF Len(t) < Len(old) THEN t
    ELSE IF StartsWith(t, old)
         THEN Replace(SubSeq(t, Len(old) + 1, Len(t)), old)
         ELSE <<Head(t)>> \o Replace(Tail(t), old)

RECURSIVE Strip(_)
Strip(t) ==
    IF t = <<>> THEN t
    ELSE IF Head(t) \in Whitespace THEN Strip(Tail(t))
    ELSE IF t[Len(t)] \in Whitespace THEN Strip(SubSeq(t, 1, Len(t) - 1))
    ELSE t

(* ------------------------------- dicts -------------------------------- *)

DictKeys(d) == [i \in 1..Len(d) |-> d[i][1]]

DictHas(d, k) == \E i \in 1..Len(d) : d[i][1] = k

DictGet(d, k) == d[CHOOSE i \in 1..Len(d) : d[i][1] = k][2]

DictSet(d, k, v) ==
    IF DictHas(d, k)
    THEN [i \in 1..Len(d) |-> IF d[i][1] = k THEN <<k, v>> ELSE d[i]]
    ELSE Append(d, <<k, v>>)

(* ----------------------- extract_company_details ---------------------- *)

Fields == <<"company_name", "company_type", "website", "description",
            "stock_price", "ceo", "founder", "founded", "headquarters",
            "number_of_employees">>

FieldSet == {Fields[i] : i \in 1..Len(Fields)}

LabelFields == {"stock_price", "ceo", "founder", "founded", "headquarters",
                "number_of_employees"}

ElevenKeys == Fields \o <<"input_company_name">>

First(raw) == IF raw # <<>> THEN Str(raw[1]) ELSE None

StockPriceTextStripFirst(t) == Replace(Replace(Strip(t), StockLabel), <<NNBSP>>)

StockPriceText(t) == Strip(Replace(Replace(t, StockLabel), <<NNBSP>>))

CeoText(t) == Strip(Replace(t, CeoLabel))

FounderText(t) == Strip(Replace(Replace(t, FoundersLabel), FounderLabel))

FoundedText(t) == Strip(Replace(t, FoundedLabel))

HeadquartersText(t) == Strip(Replace(t, HeadquartersLabel))

EmployeesText(t) == Strip(Replace(t, EmployeesLabel))

NormalizeText(f, t) ==
    CASE f = "stock_price" -> StockPriceText(t)
      [] f = "ceo" -> CeoText(t)
      [] f = "founder" -> FounderText(t)
      [] f = "founded" -> FoundedText(t)
      [] f = "headquarters" -> HeadquartersText(t)
      [] f = "number_of_employees" -> EmployeesText(t)

stock_price(raw) == IF raw # <<>> THEN Str(StockPriceText(Join(raw))) ELSE None

ceo(raw) == IF raw # <<>> THEN Str(CeoText(Join(raw))) ELSE None

founder(raw) == IF raw # <<>> THEN Str(FounderText(Join(raw))) ELSE None

foundedEmptyIsNone(raw) ==
    IF FoundedText(Join(raw)) # <<>> THEN Str(FoundedText(Join(raw))) ELSE None

founded(raw) == IF raw # <<>> THEN Str(FoundedText(Join(raw))) ELSE None

headquarters(raw) == IF raw # <<>> THEN Str(HeadquartersText(Join(raw))) ELSE None

num_of_employees(raw) == IF raw # <<>> THEN Str(EmployeesText(Join(raw))) ELSE None

extractDroppingNone(doc) ==
    SelectSeq(<< <<"company_name", First(doc["company_name"])>>,
                 <<"company_type", First(doc["company_type"])>>,
                 <<"website", First(doc["website"])>>,
                 <<"description", First(doc["description"])>>,
                 <<"stock_price", stock_price(doc["stock_price"])>>,
                 <<"ceo", ceo(doc["ceo"])>>,
                 <<"founder", founder(doc["founder"])>>,
                 <<"founded", founded(doc["founded"])>>,
                 <<"headquarters", headquarters(doc["headquarters"])>>,
                 <<"number_of_employees",
                   num_of_employees(doc["number_of_employees"])>> >>,
              LAMBDA kv : ~kv[2].none)

extract_company_details(doc) ==
    << <<"company_name", First(doc["company_name"])>>,
       <<"company_type", First(doc["company_type"])>>,
       <<"website", First(doc["website"])>>,
       <<"description", First(doc["description"])>>,
       <<"stock_price", stock_price(doc["stock_price"])>>,
       <<"ceo", ceo(doc["ceo"])>>,
       <<"founder", founder(doc["founder"])>>,
       <<"founded", founded(doc["founded"])>>,
       <<"headquarters", headquarters(doc["headquarters"])>>,
       <<"number_of_employees", num_of_employees(doc["number_of_employees"])>> >>

(* ---------------------------- get_response ---------------------------- *)

MaxRetries == 3

Statuses == {200, 204, 503}

IsSuccessAny2xx(status) == status \in 200..299

IsSuccess(status) == status = 200

NoResponse == [none |-> TRUE, status |-> 0, doc |-> <<>>]

Response(status, doc) == [none |-> FALSE, status |-> status, doc |-> doc]

\* requests.Response.__bool__ is Response.ok; None is falsy
Truthy(r) == ~r.none /\ r.status < 400

Sent(status) == [raised |-> FALSE, status |-> status]

Raised == [raised |-> TRUE, status |-> 0]

(* ------------------------- inputs of the model ------------------------ *)

Amazon == <<"A","m","a","z","o","n">>

Acme == <<"A","c","m","e">>

Names == {Amazon, Acme}

Price == <<"1","2","3",".","4","5">>

EmptyDoc == [f \in FieldSet |-> <<>>]

TitleDoc == [EmptyDoc EXCEPT !["company_name"] = <<Amazon>>]

StockDoc == [EmptyDoc EXCEPT !["stock_price"] =
                 <<StockLabel \o <<" ">>, Price, <<NNBSP, "U", "S", "D">> >>]

BlankDoc == [EmptyDoc EXCEPT !["founded"] = <<FoundedLabel>>,
                             !["website"] = << <<>> >>,
                             !["company_name"] = <<Acme>>]

FullDoc == [f \in FieldSet |->
               CASE f = "stock_price" -> <<StockLabel, <<" ">>, Price>>
                 [] f = "ceo" -> << <<"A","n","d","y">> >>
                 [] f = "founder" -> <<FounderLabel, <<" ","J","e","f","f">> >>
                 [] f = "founded" -> <<FoundedLabel, <<" ","1","9","9","4">> >>
                 [] f = "headquarters" -> <<HeadquartersLabel, <<" ","W","A">> >>
                 [] f = "number_of_employees" -> <<EmployeesLabel, <<" ","9">> >>
                 [] OTHER -> <<Amazon, Acme>>]

Documents == {EmptyDoc, TitleDoc, StockDoc, BlankDoc, FullDoc}

QueryLists == UNION {[1..n -> Names] : n \in 0..MaxQueries}

(* ------------------------------ write_csv ----------------------------- *)

NoFile == [exists |-> FALSE, header |-> <<>>, rows |-> <<>>]

OldFile == [exists |-> TRUE, header |-> <<"company_name">>,
            rows |-> << <<Acme>> >>]

EmptyFile == [exists |-> TRUE, header |-> <<>>, rows |-> <<>>]

OpenKeepingContent(f) == [f EXCEPT !.exists = TRUE]

\* open(file_name, 'w'): creates or truncates
Open(f) == EmptyFile

CellOfNoneAsText(v) == IF v.none THEN <<"N","o","n","e">> ELSE v.s

\* csv.DictWriter writes None as the empty string
CellOf(v) == IF v.none THEN <<>> ELSE v.s

RowOf(fieldnames, data) ==
    [j \in 1..Len(fieldnames) |-> CellOf(DictGet(data, fieldnames[j]))]

NeverRaises(list) == FALSE

\* company_details_list[0] on an empty list
IndexRaises(list) == list = <<>>

\* fieldnames = company_details_list[0].keys(); never evaluated on an empty
\* list, where IndexRaises holds
WriteRows(list) ==
    [exists |-> TRUE,
     header |-> IF list # <<>> THEN DictKeys(list[1]) ELSE <<>>,
     rows |-> [i \in 1..Len(list) |-> RowOf(DictKeys(list[1]), list[i])]]

(* ----------------------------- scrape_data ---------------------------- *)

Prepend(list, rec) == <<rec>> \o list

AppendRecord(list, rec) == Append(list, rec)

Got200(log) == \E i \in 1..Len(log) : ~log[i].raised /\ log[i].status = 200

XIdle ==
    /\ xdoc = EmptyDoc
    /\ xstage = "idle"
    /\ xdetails = <<>>
    /\ xagain = <<>>

Init ==
    /\ queries \in QueryLists
    /\ file0 \in {NoFile, OldFile}
    /\ file = file0
    /\ pc = "loop"
    /\ idx = 1
    /\ retry = 0
    /\ attempts = <<>>
    /\ response = NoResponse
    /\ company_details_list = <<>>
    /\ outcomes = <<>>
    /\ origin = <<>>
    /\ stdout = <<>>
    /\ writeCalls = 0
    /\ writeArg = <<>>
    /\ exception = "none"
    /\ XIdle

\* for company in input_company_names: response = get_response(company)
CallGetResponse ==
    /\ pc = "loop"
    /\ idx <= Len(queries)
    /\ pc' = "fetch"
    /\ retry' = 0
    /\ attempts' = <<>>
    /\ response' = NoResponse
    /\ UNCHANGED <<queries, file0, idx, company_details_list, outcomes, origin,
                   stdout, file, writeCalls, writeArg, exception>>
    /\ UNCHANGED xVars

\* requests.get returns a response whose status is accepted
AttemptAccepted ==
    /\ pc = "fetch"
    /\ retry < MaxRetries
    /\ \E status \in Statuses, doc \in Documents :
          /\ IsSuccess(status)
          /\ attempts' = Append(attempts, Sent(status))
          /\ response' = Response(status, doc)
    /\ pc' = "returned"
    /\ UNCHANGED <<queries, file0, idx, retry, company_details_list, outcomes,
                   origin, stdout, file, writeCalls, writeArg, exception>>
    /\ UNCHANGED xVars

\* requests.get returns a response whose status is not accepted
AttemptRejected ==
    /\ pc = "fetch"
    /\ retry < MaxRetries
    /\ \E status \in Statuses :
          /\ ~IsSuccess(status)
          /\ attempts' = Append(attempts, Sent(status))
    /\ retry' = retry + 1
    /\ UNCHANGED <<queries, file0, pc, idx, response, company_details_list,
                   outcomes, origin, stdout, file, writeCalls, writeArg,
                   exception>>
    /\ UNCHANGED xVars

\* requests.get raises (timeout, connection error): nothing catches it
AttemptRaises ==
    /\ pc = "fetch"
    /\ retry < MaxRetries
    /\ attempts' = Append(attempts, Raised)
    /\ exception' = "ConnectionError"
    /\ pc' = "done"
    /\ UNCHANGED <<queries, file0, idx, retry, response, company_details_list,
                   outcomes, origin, stdout, file, writeCalls, writeArg>>
    /\ UNCHANGED xVars

\* the for loop of get_response ends: the function returns None
Exhausted ==
    /\ pc = "fetch"
    /\ retry >= MaxRetries
    /\ response' = NoResponse
    /\ pc' = "returned"
    /\ UNCHANGED <<queries, file0, idx, retry, attempts, company_details_list,
                   outcomes, origin, stdout, file, writeCalls, writeArg,
                   exception>>
    /\ UNCHANGED xVars

\* if not response: print(...); continue
Skip ==
    /\ pc = "returned"
    /\ ~Truthy(response)
    /\ stdout' = Append(stdout, queries[idx])
    /\ outcomes' = Append(outcomes, Got200(attempts))
    /\ idx' = idx + 1
    /\ attempts' = <<>>
    /\ response' = NoResponse
    /\ pc' = "loop"
    /\ UNCHANGED <<queries, file0, retry, company_details_list, origin, file,
                   writeCalls, writeArg, exception>>
    /\ UNCHANGED xVars

\* extract, set input_company_name, append
Collect ==
    /\ pc = "returned"
    /\ Truthy(response)
    /\ company_details_list' =
          AppendRecord(company_details_list,
                       DictSet(extract_company_details(response.doc),
                               "input_company_name", Str(queries[idx])))
    /\ origin' = Append(origin, idx)
    /\ outcomes' = Append(outcomes, Got200(attempts))
    /\ idx' = idx + 1
    /\ attempts' = <<>>
    /\ response' = NoResponse
    /\ pc' = "loop"
    /\ UNCHANGED <<queries, file0, retry, stdout, file, writeCalls, writeArg,
                   exception>>
    /\ UNCHANGED xVars

\* write_csv(output_file, company_details_list): with open(file_name, 'w')
WriteOpen ==
    /\ pc = "loop"
    /\ idx > Len(queries)
    /\ writeCalls' = writeCalls + 1
    /\ writeArg' = company_details_list
    /\ file' = Open(file)
    /\ pc' = "opened"
    /\ UNCHANGED <<queries, file0, idx, retry, attempts, response,
                   company_details_list, outcomes, origin, stdout, exception>>
    /\ UNCHANGED xVars

\* fieldnames = company_details_list[0].keys() raises IndexError
WriteFails ==
    /\ pc = "opened"
    /\ IndexRaises(writeArg)
    /\ exception' = "IndexError"
    /\ pc' = "done"
    /\ UNCHANGED <<queries, file0, idx, retry, attempts, response,
                   company_details_list, outcomes, origin, stdout, file,
                   writeCalls, writeArg>>
    /\ UNCHANGED xVars

\* header and one row per record
WriteBody ==
    /\ pc = "opened"
    /\ ~IndexRaises(writeArg)
    /\ file' = WriteRows(writeArg)
    /\ pc' = "done"
    /\ UNCHANGED <<queries, file0, idx, retry, attempts, response,
                   company_details_list, outcomes, origin, stdout, writeCalls,
                   writeArg, exception>>
    /\ UNCHANGED xVars

Next ==
    \/ CallGetResponse
    \/ AttemptAccepted
    \/ AttemptRejected
    \/ AttemptRaises
    \/ Exhausted
    \/ Skip
    \/ Collect
    \/ WriteOpen
    \/ WriteFails
    \/ WriteBody

Spec == Init /\ [][Next]_vars

(* ------------- extract_company_details as a pure function ------------- *)

Generic == {Price, <<NNBSP, "U", "S", "D">>, <<" ">>}

LabelsOf(f) ==
    CASE f = "stock_price" -> {StockLabel}
      [] f = "ceo" -> {CeoLabel}
      [] f = "founder" -> {FoundersLabel, FounderLabel}
      [] f = "founded" -> {FoundedLabel}
      [] f = "headquarters" -> {HeadquartersLabel}
      [] f = "number_of_employees" -> {EmployeesLabel}
      [] OTHER -> {}

\* a label, and the two halves of a label
Pieces(L) == {L, SubSeq(L, 1, Len(L) \div 2), SubSeq(L, Len(L) \div 2 + 1, Len(L))}

\* text() nodes are never empty; an href attribute can be
FragPool(f) ==
    Generic \cup UNION {Pieces(L) : L \in LabelsOf(f)}
            \cup (IF f = "website" THEN {<<>>} ELSE {})

FragSeqs(f) == UNION {[1..n -> FragPool(f)] : n \in 0..MaxFrags}

XDocs == {[base EXCEPT ![f] = raw] :
             <<base, f, raw>> \in {<<b, g, r>> \in
                 {EmptyDoc, FullDoc} \X FieldSet \X UNION {FragSeqs(h) : h \in FieldSet} :
                 r \in FragSeqs(g)}}

PipeIdle ==
    /\ queries = <<>>
    /\ file0 = NoFile
    /\ file = NoFile
    /\ pc = "idle"
    /\ idx = 1
    /\ retry = 0
    /\ attempts = <<>>
    /\ response = NoResponse
    /\ company_details_list = <<>>
    /\ outcomes = <<>>
    /\ origin = <<>>
    /\ stdout = <<>>
    /\ writeCalls = 0
    /\ writeArg = <<>>
    /\ exception = "none"

XInit ==
    /\ PipeIdle
    /\ xdoc \in XDocs
    /\ xstage = "parsed"
    /\ xdetails = <<>>
    /\ xagain = <<>>

\* company_details = extract_company_details(response)
XExtract ==
    /\ xstage = "parsed"
    /\ xdetails' = extract_company_details(xdoc)
    /\ xstage' = "extracted"
    /\ UNCHANGED <<xdoc, xagain>>
    /\ UNCHANGED pipeVars

\* the replace/strip chain of each label field, applied to its own result
XRenormalize ==
    /\ xstage = "extracted"
    /\ xagain' = [f \in LabelFields |->
                     IF DictGet(xdetails, f).none THEN None
                     ELSE Str(NormalizeText(f, DictGet(xdetails, f).s))]
    /\ xstage' = "renormalized"
    /\ UNCHANGED <<xdoc, xdetails>>
    /\ UNCHANGED pipeVars

XNext ==
    \/ XExtract
    \/ XRenormalize

SpecX == XInit /\ [][XNext]_vars

(* ------------------------------ properties ---------------------------- *)

Is200(a) == ~a.raised /\ a.status = 200

NoneRaised(log) == \A i \in 1..Len(log) : ~log[i].raised

Indices(n) == [i \in 1..n |-> i]

OkIndices == SelectSeq(Indices(Len(outcomes)), LAMBDA i : outcomes[i])

InputNames(list) ==
    [i \in 1..Len(list) |-> DictGet(list[i], "input_company_name")]

Contains(t, L) == \E i \in 1..Len(t) : StartsWith(SubSeq(t, i, Len(t)), L)

\* C1: get_response issues at most 3 requests, none after the first status
\* 200; when every attempt returned a status it returns the 200 response iff
\* some attempt had status exactly 200, and otherwise returns None after three
\* non-200 statuses, without raising.
C1_BoundedRetry ==
    /\ Len(attempts) <= 3
    /\ \A i \in 1..(Len(attempts) - 1) : ~Is200(attempts[i])
    /\ (pc = "returned" /\ NoneRaised(attempts)) =>
          /\ exception = "none"
          /\ ~response.none <=> Got200(attempts)
          /\ ~response.none =>
                /\ response.status = 200
                /\ Is200(attempts[Len(attempts)])
          /\ response.none =>
                /\ Len(attempts) = 3
                /\ \A i \in 1..3 : attempts[i].status # 200

C1_Witness ==
    /\ pc = "returned"
    /\ response.none
    /\ Len(attempts) = 3
    /\ \E i \in 1..3 : attempts[i].status = 204

C3_FetchFailureNeverAborts ==
    (pc = "done" /\ exception # "none") =>
        /\ writeCalls = 1
        /\ exception = "IndexError"

\* C4: every record collected and every record handed to write_csv has exactly
\* the eleven keys in canonical order, and its input_company_name is the query
\* of the iteration that produced it; the header written is those eleven keys.
C4_ElevenKeys ==
    /\ Len(origin) = Len(company_details_list)
    /\ \A i \in 1..Len(company_details_list) :
          /\ DictKeys(company_details_list[i]) = ElevenKeys
          /\ DictGet(company_details_list[i], "input_company_name")
                = Str(queries[origin[i]])
    /\ \A i \in 1..Len(writeArg) :
          /\ DictKeys(writeArg[i]) = ElevenKeys
          /\ writeArg[i] = company_details_list[i]
    /\ (pc = "done" /\ exception = "none") => file.header = ElevenKeys

C4_Witness ==
    /\ pc = "done"
    /\ exception = "none"
    /\ \E i \in 1..Len(writeArg) :
          /\ \A j \in 1..10 : writeArg[i][j][2].none
          /\ writeArg[i][11][2] = Str(Acme)

\* C5: when the loop ends with no record, write_csv is still called exactly
\* once and ends with an error; it never returns normally on an empty list.
C5_EmptyBatchRaises ==
    /\ writeCalls <= 1
    /\ (pc = "done" /\ Len(outcomes) = Len(queries)
          /\ company_details_list = <<>>) =>
          /\ writeCalls = 1
          /\ writeArg = <<>>
          /\ exception = "IndexError"
    /\ (pc = "done" /\ exception = "none") => writeArg # <<>>

C5_Witness ==
    /\ pc = "done"
    /\ exception = "IndexError"
    /\ Len(queries) = 2
    /\ outcomes = <<FALSE, FALSE>>
    /\ writeCalls = 1

\* C6: after extraction every one of the ten fields is None iff its selector
\* returned no fragment, and is a string (possibly empty) otherwise.
C6_NoneIffNoFragments ==
    xstage \in {"extracted", "renormalized"} =>
        /\ Len(xdetails) = 10
        /\ \A f \in FieldSet :
              /\ DictHas(xdetails, f)
              /\ DictGet(xdetails, f).none <=> (xdoc[f] = <<>>)

C6_Witness ==
    /\ xstage = "extracted"
    /\ xdoc["founded"] # <<>>
    /\ DictGet(xdetails, "founded") = Str(<<>>)
    /\ xdoc["ceo"] = <<>>
    /\ DictGet(xdetails, "ceo") = None

\* what a reader of the file gets: one dict per row, empty cell read as None
ReadBack(f) ==
    [i \in 1..Len(f.rows) |->
        [j \in 1..Len(f.header) |->
            <<f.header[j],
              IF f.rows[i][j] = <<>> THEN None ELSE Str(f.rows[i][j])>>]]

EmptyAsNone(list) ==
    [i \in 1..Len(list) |->
        [j \in 1..Len(list[i]) |->
            <<list[i][j][1],
              IF list[i][j][2] = Str(<<>>) THEN None ELSE list[i][j][2]>>]]

\* C7 as stated: reading the written file back gives the records written,
\* also when a matched field is the empty string.
C7_RoundTripExact ==
    (pc = "done" /\ exception = "none") => ReadBack(file) = writeArg

\* C7 amended: reading the written file back gives as many rows as records, in
\* order, with every value equal to the one written except that an empty
\* string reads back as None.
C7_RoundTripUpToEmpty ==
    (pc = "done" /\ exception = "none") =>
        /\ Len(file.rows) = Len(writeArg)
        /\ ReadBack(file) = EmptyAsNone(writeArg)

C7_Witness ==
    /\ pc = "done"
    /\ exception = "none"
    /\ Len(writeArg) = 2
    /\ DictGet(writeArg[1], "founded") = Str(<<>>)
    /\ DictGet(writeArg[2], "stock_price") = Str(Price \o <<"U", "S", "D">>)
    /\ DictGet(writeArg[2], "founded") = None

\* C8 as stated: for the six label fields, normalising the normalised value
\* returns it unchanged, for every joined text.
C8_Idempotent ==
    xstage = "renormalized" =>
        \A f \in LabelFields : xagain[f] = DictGet(xdetails, f)

\* C8 amended: normalising the normalised value returns it unchanged whenever
\* that value contains none of the field's labels.
C8_IdempotentOnClean ==
    xstage = "renormalized" =>
        \A f \in LabelFields :
            (\A L \in LabelsOf(f) : ~Contains(DictGet(xdetails, f).s, L))
                => xagain[f] = DictGet(xdetails, f)

C8_Witness ==
    /\ xstage = "renormalized"
    /\ Contains(Join(xdoc["stock_price"]), StockLabel)
    /\ DictGet(xdetails, "stock_price") = Str(Price)
    /\ xagain["stock_price"] = Str(Price)

StripPrefix(t, L) ==
    IF StartsWith(t, L) THEN SubSeq(t, Len(L) + 1, Len(t)) ELSE t

\* C9 as stated: stock_price is the joined text with the label stripped as a
\* prefix, every U+202F removed, and the ends trimmed.
C9_LabelStrippedAsPrefix ==
    (xstage = "extracted" /\ xdoc["stock_price"] # <<>>) =>
        DictGet(xdetails, "stock_price") =
            Str(Strip(Replace(StripPrefix(Join(xdoc["stock_price"]), StockLabel),
                              <<NNBSP>>)))

\* positions of the joined text that survive: outside every occurrence of the
\* label, not U+202F, and between the first and last surviving non-blank
Surviving(t) ==
    LET inLabel == {j \in 1..Len(t) :
                       \E i \in 1..j : /\ j < i + Len(StockLabel)
                                       /\ StartsWith(SubSeq(t, i, Len(t)), StockLabel)}
        kept == {j \in 1..Len(t) : j \notin inLabel /\ t[j] # NNBSP}
        solid == {j \in kept : t[j] \notin Whitespace}
    IN {j \in kept : /\ \E a \in solid : a <= j
                     /\ \E b \in solid : j <= b}

\* C9 amended: stock_price is the joined text without the characters of any
\* occurrence of the label (wherever it occurs), without any U+202F, and
\* without leading and trailing whitespace; the rest is kept in order.
C9_LabelRemovedEverywhere ==
    (xstage = "extracted" /\ xdoc["stock_price"] # <<>>) =>
        LET t == Join(xdoc["stock_price"])
            at == SelectSeq(Indices(Len(t)), LAMBDA j : j \in Surviving(t))
        IN DictGet(xdetails, "stock_price") = Str([k \in 1..Len(at) |-> t[at[k]]])

C9_Witness ==
    /\ xstage = "extracted"
    /\ xdoc["stock_price"] = <<Price, StockLabel, <<NNBSP, "U", "S", "D">> >>
    /\ DictGet(xdetails, "stock_price") = Str(Price \o <<"U", "S", "D">>)

\* C10: write_csv truncates the destination before it looks at the list: while
\* the file is open and before anything is written it is empty, and when the
\* call fails on an empty list the destination is left an empty file without
\* header or rows, whatever it held before.
C10_TruncatedBeforeFailure ==
    /\ pc = "opened" => file = EmptyFile
    /\ (pc = "done" /\ exception = "IndexError") =>
          /\ writeArg = <<>>
          /\ file.exists
          /\ file.header = <<>>
          /\ file.rows = <<>>

C10_Witness ==
    /\ pc = "done"
    /\ exception = "IndexError"
    /\ file0 = OldFile
    /\ file = EmptyFile

====
